---- MODULE Spec2Model ----
(***************************************************************************)
(* Model of scripts/fetch_and_filter.py: a linear pipeline                 *)
(*   load_config -> load_skus -> download_feed -> guess_format ->          *)
(*   read_dataframe -> column check -> normalise/filter/coerce/sort/keep   *)
(*   -> mkdir -> to_csv -> to_json.                                        *)
(* Strings are sequences of one-character strings, so that strip, upper,   *)
(* lower, replace, endswith and the numeric parse are computed and not     *)
(* assumed.  A byte string is a sequence of runs [b, n] (byte b repeated   *)
(* n times), so that the 4096-byte sniffing window keeps its real size.    *)
(***************************************************************************)
EXTENDS Integers, Sequences, FiniteSets, TLC

VARIABLES
    pc,          \* position of main()
    cfg,         \* result of load_config (<<>> before)
    skuFile,     \* lines of data/skus.txt as read by load_skus
    skus,        \* result of load_skus
    feed_url,    \* os.environ.get("FEED_URL", "").strip()
    content,     \* bytes returned by download_feed
    fmt,         \* result of guess_format
    parsed,      \* the table as read_dataframe returned it
    df,          \* the table, mutated in place by the normalisation
    out,         \* the output frame
    fs,          \* file system: directories made, csv and json files written
    exitCode,    \* process exit status: <<>> while running, then <<code>>
    stderr,      \* diagnostics printed to sys.stderr
    gets,        \* number of HTTP GET requests issued
    log,         \* steps of main() executed so far, in order
    series,      \* argument of to_number (pure-function specification)
    decimal,     \* argument of to_number / cfg["decimal"]
    numbers,     \* result of to_number
    npc          \* position of the pure-function specifications

vars == <<pc, cfg, skuFile, skus, feed_url, content, fmt, parsed, df, out, fs,
          exitCode, stderr, gets, log, series, decimal, numbers, npc>>

\* Python's None, where a str is expected
NULL == "<None>"

---------------------------------------------------------------------------
(* Characters and Python str methods                                       *)

\* Characters in ascending code-point order (Python compares str by code point).
CodePoints ==
    <<" ", "#", ",", "-", ".", "/", "0", "1", "2", "3", "4", "5", "6", "7", "8",
      "9", ":", ";", "=", "?", "A", "B", "C", "L", "M", "S", "V", "X", "_", "a", "b",
      "c", "l", "m", "n", "s", "t", "v", "x">>

Ord(c) == CHOOSE i \in 1..Len(CodePoints) : CodePoints[i] = c

LowerLetters == <<"a", "b", "c", "l", "m", "s", "v", "x">>
UpperLetters == <<"A", "B", "C", "L", "M", "S", "V", "X">>

UpperChar(c) ==
    IF \E i \in 1..Len(LowerLetters) : LowerLetters[i] = c
    THEN UpperLetters[CHOOSE i \in 1..Len(LowerLetters) : LowerLetters[i] = c]
    ELSE c

LowerChar(c) ==
    IF \E i \in 1..Len(UpperLetters) : UpperLetters[i] = c
    THEN LowerLetters[CHOOSE i \in 1..Len(UpperLetters) : UpperLetters[i] = c]
    ELSE c

\* [Op(x) for x in s]
RECURSIVE Map(_, _)
Map(Op(_), s) == IF s = <<>> THEN <<>> ELSE <<Op(Head(s))>> \o Map(Op, Tail(s))

\* str.upper / str.lower
Upper(s) == Map(UpperChar, s)
Lower(s) == Map(LowerChar, s)

IsSpace(c) == c = " "

RECURSIVE LStrip(_)
LStrip(s) == IF s # <<>> /\ IsSpace(Head(s)) THEN LStrip(Tail(s)) ELSE s

RECURSIVE RStrip(_)
RStrip(s) ==
    IF s # <<>> /\ IsSpace(s[Len(s)]) THEN RStrip(SubSeq(s, 1, Len(s) - 1)) ELSE s

\* str.strip()
Strip(s) == RStrip(LStrip(s))

\* str.endswith(suffix)
EndsWith(s, suffix) ==
    /\ Len(suffix) <= Len(s)
    /\ SubSeq(s, Len(s) - Len(suffix) + 1, Len(s)) = suffix

\* str.startswith(prefix)
StartsWith(s, prefix) ==
    /\ Len(prefix) <= Len(s)
    /\ SubSeq(s, 1, Len(prefix)) = prefix

\* str.replace(c, "") for a one-character c
RECURSIVE Remove(_, _)
Remove(s, c) ==
    IF s = <<>> THEN <<>>
    ELSE IF Head(s) = c THEN Remove(Tail(s), c)
    ELSE <<Head(s)>> \o Remove(Tail(s), c)

\* str.replace(c, d) for one-character c and d
Replace(s, c, d) == Map(LAMBDA x : IF x = c THEN d ELSE x, s)

\* Python's < on str: lexicographic by code point, a proper prefix is smaller.
RECURSIVE StrLess(_, _)
StrLess(a, b) ==
    IF b = <<>> THEN FALSE
    ELSE IF a = <<>> THEN TRUE
    ELSE IF Head(a) # Head(b) THEN Ord(Head(a)) < Ord(Head(b))
    ELSE StrLess(Tail(a), Tail(b))

---------------------------------------------------------------------------
(* to_number                                                               *)

Digits == <<"0", "1", "2", "3", "4", "5", "6", "7", "8", "9">>
IsDigit(c) == \E i \in 1..Len(Digits) : Digits[i] = c
DigitVal(c) == (CHOOSE i \in 1..Len(Digits) : Digits[i] = c) - 1

RECURSIVE Pow10(_)
Pow10(n) == IF n = 0 THEN 1 ELSE 10 * Pow10(n - 1)

\* value of a string of digits (0 for the empty string)
RECURSIVE DigitsInt(_)
DigitsInt(s) ==
    IF s = <<>> THEN 0
    ELSE 10 * DigitsInt(SubSeq(s, 1, Len(s) - 1)) + DigitVal(s[Len(s)])

\* A float is NaN or the finite number m / 10^e, kept in lowest form
\* (e = 0 or m not a multiple of 10), so that 1.50 and 1.5 are the same value.
NaN == [nan |-> TRUE, m |-> 0, e |-> 0]

RECURSIVE Canon(_, _)
Canon(m, e) ==
    IF e > 0 /\ m % 10 = 0 THEN Canon(m \div 10, e - 1)
    ELSE [nan |-> FALSE, m |-> m, e |-> e]

\* pd.to_numeric(errors="coerce") on one str: optional surrounding white space,
\* optional sign, digits with at most one decimal point and at least one digit;
\* anything else is coerced to NaN.
to_numeric(s) ==
    LET t == Strip(s)
        neg == t # <<>> /\ Head(t) = "-"
        body == IF neg THEN Tail(t) ELSE t
        dots == {i \in 1..Len(body) : body[i] = "."}
        dot == CHOOSE i \in dots : TRUE
        ds == Remove(body, ".")
    IN  IF /\ Cardinality(dots) <= 1
           /\ ds # <<>>
           /\ \A i \in 1..Len(ds) : IsDigit(ds[i])
        THEN Canon((IF neg THEN -1 ELSE 1) * DigitsInt(ds),
                   IF dots = {} THEN 0 ELSE Len(body) - dot)
        ELSE NaN

\* mutant: the thousands separator "." is not removed in decimal-comma mode
to_number_KeepDots(ser, dec) ==
    Map(LAMBDA x : to_numeric(IF dec = ","
                              THEN Replace(Strip(x), ",", ".")
                              ELSE Remove(Strip(x), ",")), ser)

\* to_number(series, decimal)
to_number(ser, dec) ==
    Map(LAMBDA x : to_numeric(IF dec = ","
                              THEN Replace(Remove(Strip(x), "."), ",", ".")
                              ELSE Remove(Strip(x), ",")), ser)

---------------------------------------------------------------------------
(* guess_format                                                            *)

SniffLen == 4096

\* content[:n] of a byte string given as runs
RECURSIVE Slice(_, _)
Slice(bytes, n) ==
    IF bytes = <<>> \/ n = 0 THEN <<>>
    ELSE IF Head(bytes).n >= n THEN <<[b |-> Head(bytes).b, n |-> n]>>
    ELSE <<Head(bytes)>> \o Slice(Tail(bytes), n - Head(bytes).n)

\* b in bytes
Contains(bytes, b) == \E i \in 1..Len(bytes) : bytes[i].b = b /\ bytes[i].n > 0

\* mutant: the whole content is searched, not its first 4096 bytes
guess_format_NoSlice(url, bytes) ==
    LET u == Lower(url)
    IN  IF EndsWith(u, <<".", "x", "l", "s", "x">>) \/ EndsWith(u, <<".", "x", "l", "s", "m">>)
        THEN "xlsx"
        ELSE IF EndsWith(u, <<".", "x", "l", "s">>) THEN "xls"
        ELSE IF EndsWith(u, <<".", "c", "s", "v">>) THEN "csv"
        ELSE IF Contains(bytes, ",") \/ Contains(bytes, ";") THEN "csv"
        ELSE "xlsx"

guess_format(url, bytes) ==
    LET u == Lower(url)
    IN  IF EndsWith(u, <<".", "x", "l", "s", "x">>) \/ EndsWith(u, <<".", "x", "l", "s", "m">>)
        THEN "xlsx"
        ELSE IF EndsWith(u, <<".", "x", "l", "s">>) THEN "xls"
        ELSE IF EndsWith(u, <<".", "c", "s", "v">>) THEN "csv"
        ELSE IF Contains(Slice(bytes, SniffLen), ",") \/ Contains(Slice(bytes, SniffLen), ";")
             THEN "csv"
        ELSE "xlsx"

---------------------------------------------------------------------------
(* Inputs of a run: what the files, the environment and the network hold   *)

MaxLines == 2      \* lines of data/skus.txt
MaxRows == 2       \* rows of the feed table
MaxLen == 4        \* characters of a to_number argument
MaxRuns == 2       \* runs of bytes of a guess_format content

\* all sequences over S of length at most n
RECURSIVE SeqsUpTo(_, _)
SeqsUpTo(S, n) ==
    IF n = 0 THEN {<<>>}
    ELSE LET shorter == SeqsUpTo(S, n - 1)
         IN  shorter \cup {Append(q, x) : q \in {r \in shorter : Len(r) = n - 1}, x \in S}

\* lines of data/skus.txt (without the newline)
LinePool == {<<" ", "a">>, <<"B">>, <<"#", "c">>, <<>>}

\* rows of the feed: Art, Name, Qty, Price as the parser returned them
RowPool ==
    { << <<" ", "a">>, <<"m", " ">>, <<"3">>,           <<"1", ".", "2", ",", "5">> >>,
      << <<"A">>,      <<"n">>,      <<"x">>,           <<"x">> >>,
      << <<"b", " ">>, <<" ", "s">>, <<"1", ",", "5">>, <<>> >>,
      << <<"c">>,      <<"t">>,      <<" ", "2", " ">>, <<"7">> >> }

\* contents of data/skus.txt
LinesPool == SeqsUpTo(LinePool, MaxLines)

FeedCols == <<"Art", "Name", "Qty", "Price">>

TablePool ==
    {[kind |-> "frame", cols |-> FeedCols, rows |-> r] : r \in SeqsUpTo(RowPool, MaxRows)}

OutCols == <<"sku", "name", "qty", "price">>

BaseCfg ==
    [sheet_name |-> "Sheet1", sku_column |-> "Art", name_column |-> "Name",
     qty_column |-> "Qty", price_column |-> "Price", decimal |-> "."]

\* config.yaml as yaml.safe_load returns it
CfgPool ==
    { BaseCfg,
      [BaseCfg EXCEPT !.decimal = ","],
      [BaseCfg EXCEPT !.price_column = "Cost"],
      [k \in DOMAIN BaseCfg \ {"qty_column"} |-> BaseCfg[k]],
      [k \in DOMAIN BaseCfg \ {"sheet_name"} |-> BaseCfg[k]] }
    \cup { [k \in DOMAIN BaseCfg \cup {"keep_columns"} |->
               IF k = "keep_columns" THEN kc ELSE BaseCfg[k]] :
           kc \in { <<>>, <<"price", "sku">>, <<"sku", "foo">>, <<"foo">>,
                    <<"qty", "qty">> } }

\* values of the FEED_URL environment variable ("" when unset)
UrlPool ==
    { <<>>, <<" ">>, <<" ", "f", ".", "c", "s", "v", " ">>, <<"f", ".", "X", "L", "S">> }

\* feed bodies
ContentPool == { << [b |-> ",", n |-> 1] >> }

---------------------------------------------------------------------------
(* Frames                                                                  *)

\* dict.get(key, default)
Get(d, key, default) == IF key \in DOMAIN d THEN d[key] ELSE default

ColIndex(cols, c) == CHOOSE i \in 1..Len(cols) : cols[i] = c

\* frame[c]
Column(frame, c) == Map(LAMBDA r : r[ColIndex(frame.cols, c)], frame.rows)

\* the rows with cell k replaced by the values, row by row
RECURSIVE SetCells(_, _, _)
SetCells(rows, k, values) ==
    IF rows = <<>> THEN <<>>
    ELSE <<[Head(rows) EXCEPT ![k] = Head(values)]>> \o SetCells(Tail(rows), k, Tail(values))

\* frame[c] = values
SetColumn(frame, c, values) ==
    [frame EXCEPT !.rows = SetCells(frame.rows, ColIndex(frame.cols, c), values)]

\* frame[mask]
RECURSIVE MaskRows(_, _)
MaskRows(rows, mask) ==
    IF rows = <<>> THEN <<>>
    ELSE (IF Head(mask) THEN <<Head(rows)>> ELSE <<>>) \o MaskRows(Tail(rows), Tail(mask))

\* frame[[c1, c2, ...]]
Project(frame, names) ==
    [frame EXCEPT
        !.cols = names,
        !.rows = Map(LAMBDA r : Map(LAMBDA c : r[ColIndex(frame.cols, c)], names), frame.rows)]

\* [c for c in xs if P(c)]
RECURSIVE Filter(_, _)
Filter(xs, S) ==
    IF xs = <<>> THEN <<>>
    ELSE (IF Head(xs) \in S THEN <<Head(xs)>> ELSE <<>>) \o Filter(Tail(xs), S)

Range(f) == {f[i] : i \in DOMAIN f}

---------------------------------------------------------------------------
(* Pure parts of load_skus and main                                        *)

\* mutant: the lines are collected without upper-casing
RECURSIVE load_skus_list_NoUpper(_)
load_skus_list_NoUpper(lines) ==
    IF lines = <<>> THEN <<>>
    ELSE (IF Strip(Head(lines)) = <<>> \/ StartsWith(Strip(Head(lines)), <<"#">>)
          THEN <<>>
          ELSE <<Strip(Head(lines))>>) \o load_skus_list_NoUpper(Tail(lines))

\* the list load_skus builds from the lines of the file
RECURSIVE load_skus_list(_)
load_skus_list(lines) ==
    IF lines = <<>> THEN <<>>
    ELSE (IF Strip(Head(lines)) = <<>> \/ StartsWith(Strip(Head(lines)), <<"#">>)
          THEN <<>>
          ELSE <<Upper(Strip(Head(lines)))>>) \o load_skus_list(Tail(lines))

\* normalize_series_to_str
normalize_series_to_str(s) == Map(Strip, s)

\* Series.str.upper()
StrUpper(s) == Map(Upper, s)

\* needed = {sku_column, name_column, qty_column, price_column}
Needed(c) ==
    {Get(c, "sku_column", NULL), Get(c, "name_column", NULL),
     Get(c, "qty_column", NULL), Get(c, "price_column", NULL)}

\* mutant: the price column is not among the columns checked
MissingColumns_NoPrice(frame, c) ==
    {x \in Needed(c) \ {Get(c, "price_column", NULL)} : x \notin Range(frame.cols)}

\* missing = [c for c in needed if c not in cols]
MissingColumns(frame, c) == {x \in Needed(c) : x \notin Range(frame.cols)}

\* the in-place normalisation of the code and name columns
Normalized(frame, c) ==
    LET sku == Get(c, "sku_column", NULL)
        name == Get(c, "name_column", NULL)
        f1 == SetColumn(frame, sku, StrUpper(normalize_series_to_str(Column(frame, sku))))
    IN  SetColumn(f1, name, normalize_series_to_str(Column(f1, name)))

\* df[df[sku_column].isin(skus)]
Filtered(frame, c, S) ==
    [frame EXCEPT !.rows =
        MaskRows(frame.rows,
                 Map(LAMBDA x : x \in S, Column(frame, Get(c, "sku_column", NULL))))]

\* mutant: fillna(0) is applied to the price as well
PriceOf_FillZero(frame, c) ==
    Map(LAMBDA x : IF x.nan THEN Canon(0, 0) ELSE x,
        to_number(Column(frame, Get(c, "price_column", NULL)), Get(c, "decimal", ".")))

\* to_number(filtered[price_column], decimal)
PriceOf(frame, c) ==
    to_number(Column(frame, Get(c, "price_column", NULL)), Get(c, "decimal", "."))

\* to_number(filtered[qty_column], decimal).fillna(0)
QtyFloat(frame, c) ==
    Map(LAMBDA x : IF x.nan THEN Canon(0, 0) ELSE x,
        to_number(Column(frame, Get(c, "qty_column", NULL)), Get(c, "decimal", ".")))

\* .astype("Int64") raises TypeError unless every value is a whole number
\* (a NaN is cast to <NA>: the nullable integer type has a missing value)
CanCastInt64(q) == \A i \in 1..Len(q) : q[i].nan \/ q[i].e = 0

\* the values after .astype("Int64"): an integer v, or <NA>
AsInt64(q) ==
    Map(LAMBDA x : IF x.nan THEN [na |-> TRUE, v |-> 0] ELSE [na |-> FALSE, v |-> x.m], q)

\* pd.DataFrame({"sku": ..., "name": ..., "qty": ..., "price": ...})
RECURSIVE Zip4(_, _, _, _)
Zip4(a, b, c, d) ==
    IF a = <<>> THEN <<>>
    ELSE << <<Head(a), Head(b), Head(c), Head(d)>> >> \o Zip4(Tail(a), Tail(b), Tail(c), Tail(d))

Renamed(frame, c) ==
    [frame EXCEPT
        !.cols = OutCols,
        !.rows = Zip4(Column(frame, Get(c, "sku_column", NULL)),
                      Column(frame, Get(c, "name_column", NULL)),
                      AsInt64(QtyFloat(frame, c)),
                      PriceOf(frame, c))]

\* insertion of a row behind every row whose key is not greater
RECURSIVE InsertStable(_, _, _)
InsertStable(sorted, x, k) ==
    IF sorted = <<>> THEN <<x>>
    ELSE IF StrLess(x[k], Head(sorted)[k]) THEN <<x>> \o sorted
    ELSE <<Head(sorted)>> \o InsertStable(Tail(sorted), x, k)

\* insertion of a row in front of every row whose key is not smaller
RECURSIVE InsertUnstable(_, _, _)
InsertUnstable(sorted, x, k) ==
    IF sorted = <<>> THEN <<x>>
    ELSE IF ~StrLess(Head(sorted)[k], x[k]) THEN <<x>> \o sorted
    ELSE <<Head(sorted)>> \o InsertUnstable(Tail(sorted), x, k)

\* insertion sort: the rows are inserted one by one, first to last
RECURSIVE SortRows(_, _, _)
SortRows(Insert(_, _, _), rows, k) ==
    IF rows = <<>> THEN <<>>
    ELSE Insert(SortRows(Insert, SubSeq(rows, 1, Len(rows) - 1), k), rows[Len(rows)], k)

\* mutant: a sort that does not keep the order of equal keys
sort_values_Unstable(frame, by) ==
    [frame EXCEPT !.rows = SortRows(InsertUnstable, frame.rows, ColIndex(frame.cols, by))]

\* out.sort_values(by=["sku"], kind="stable").reset_index(drop=True)
sort_values(frame, by) ==
    [frame EXCEPT !.rows = SortRows(InsertStable, frame.rows, ColIndex(frame.cols, by))]

\* keep = cfg.get("keep_columns", ["sku","name","qty","price"])
KeepOf(c) == Get(c, "keep_columns", OutCols)

\* missing_keep = [c for c in keep if c not in out.columns]
MissingKeep(frame, keep) == Filter(keep, Range(keep) \ Range(frame.cols))

\* mutant: the kept columns come in the frame's order, not in keep's
KeepColumns_FrameOrder(frame, keep) ==
    IF keep # <<>> THEN Project(frame, Filter(frame.cols, Range(keep))) ELSE frame

\* if keep: out = out[[c for c in keep if c in out.columns]]
KeepColumns(frame, keep) ==
    IF keep # <<>> THEN Project(frame, Filter(keep, Range(frame.cols))) ELSE frame

\* DataFrame.to_json(orient="records") refuses a frame whose column names repeat
ColumnsUnique(frame) ==
    \A i, j \in 1..Len(frame.cols) : frame.cols[i] = frame.cols[j] => i = j

---------------------------------------------------------------------------
(* main(): one action per step                                             *)

EmptyFrame == [kind |-> "frame", cols |-> <<>>, rows |-> <<>>]

Init ==
    /\ pc = "load_config"
    /\ cfg = <<>>
    /\ skuFile = <<>>
    /\ skus = {}
    /\ feed_url = <<>>
    /\ content = <<>>
    /\ fmt = NULL
    /\ parsed = EmptyFrame
    /\ df = EmptyFrame
    /\ out = EmptyFrame
    /\ fs = [dirs |-> {}, csv |-> <<>>, json |-> <<>>]
    /\ exitCode = <<>>
    /\ stderr = {}
    /\ gets = 0
    /\ log = <<>>
    /\ series = <<>>
    /\ decimal = "."
    /\ numbers = <<>>
    /\ npc = "main"

pureVars == <<series, decimal, numbers, npc>>

\* sys.exit(1) after a message on sys.stderr, or an uncaught exception (the
\* interpreter prints the traceback and exits with status 1)
Die(msg) ==
    /\ pc' = "exit"
    /\ exitCode' = <<1>>
    /\ stderr' = stderr \cup {msg}

\* load_config and the cfg.get calls that follow it
LoadConfig ==
    /\ pc = "load_config"
    /\ log' = Append(log, "load_config")
    /\ \/ /\ Die("config.yaml not found")
          /\ UNCHANGED cfg
       \/ \* an empty file: safe_load returns None and cfg.get raises
          /\ Die("Traceback: AttributeError")
          /\ UNCHANGED cfg
       \/ /\ \E c \in CfgPool : cfg' = c
          /\ pc' = "load_skus"
          /\ UNCHANGED <<exitCode, stderr>>
    /\ UNCHANGED <<skuFile, skus, feed_url, content, fmt, parsed, df, out, fs, gets,
                   pureVars>>

\* mutant: an empty list of codes is returned instead of being fatal
LoadSkus_AllowEmpty ==
    /\ pc = "load_skus"
    /\ log' = Append(log, "load_skus")
    /\ \/ /\ Die("data/skus.txt not found")
          /\ UNCHANGED <<skuFile, skus>>
       \/ \E lines \in LinesPool :
            /\ skuFile' = lines
            /\ skus' = Range(load_skus_list(lines))
            /\ pc' = "download_feed"
            /\ UNCHANGED <<exitCode, stderr>>
    /\ UNCHANGED <<cfg, feed_url, content, fmt, parsed, df, out, fs, gets, pureVars>>

\* load_skus
LoadSkus ==
    /\ pc = "load_skus"
    /\ log' = Append(log, "load_skus")
    /\ \/ /\ Die("data/skus.txt not found")
          /\ UNCHANGED <<skuFile, skus>>
       \/ \E lines \in LinesPool :
            /\ skuFile' = lines
            /\ IF load_skus_list(lines) = <<>>
               THEN /\ Die("code list is empty")
                    /\ UNCHANGED skus
               ELSE /\ skus' = Range(load_skus_list(lines))
                    /\ pc' = "download_feed"
                    /\ UNCHANGED <<exitCode, stderr>>
    /\ UNCHANGED <<cfg, feed_url, content, fmt, parsed, df, out, fs, gets, pureVars>>

\* mutant: the request is issued again after a transport error
DownloadFeed_Retry ==
    /\ pc = "download_feed"
    /\ \E env \in UrlPool :
         /\ feed_url' = Strip(env)
         /\ IF Strip(env) = <<>>
            THEN /\ Die("FEED_URL is not set")
                 /\ log' = Append(log, "download_feed")
                 /\ UNCHANGED <<gets, content>>
            ELSE /\ gets' = gets + 1
                 /\ \/ /\ gets < 1
                       /\ log' = log \o <<"download_feed", "get">>
                       /\ UNCHANGED <<pc, exitCode, stderr, content>>
                    \/ /\ Die("Traceback: requests.RequestException")
                       /\ log' = log \o <<"download_feed", "get">>
                       /\ UNCHANGED content
                    \/ \E body \in ContentPool :
                         /\ content' = body
                         /\ log' = log \o <<"download_feed", "get", "get_ok">>
                         /\ pc' = "read_dataframe"
                         /\ UNCHANGED <<exitCode, stderr>>
    /\ UNCHANGED <<cfg, skuFile, skus, fmt, parsed, df, out, fs, pureVars>>

\* feed_url = os.environ.get("FEED_URL", "").strip(); download_feed(feed_url)
DownloadFeed ==
    /\ pc = "download_feed"
    /\ \E env \in UrlPool :
         /\ feed_url' = Strip(env)
         /\ IF Strip(env) = <<>>
            THEN /\ Die("FEED_URL is not set")
                 /\ log' = Append(log, "download_feed")
                 /\ UNCHANGED <<gets, content>>
            ELSE /\ gets' = gets + 1
                 /\ \/ \* network failure, or raise_for_status on a non-success status
                       /\ Die("Traceback: requests.RequestException")
                       /\ log' = log \o <<"download_feed", "get">>
                       /\ UNCHANGED content
                    \/ \E body \in ContentPool :
                         /\ content' = body
                         /\ log' = log \o <<"download_feed", "get", "get_ok">>
                         /\ pc' = "read_dataframe"
                         /\ UNCHANGED <<exitCode, stderr>>
    /\ UNCHANGED <<cfg, skuFile, skus, fmt, parsed, df, out, fs, pureVars>>

IsExcel(f) == f \in {"xlsx", "xls"}

\* fmt = guess_format(feed_url, content); df = read_dataframe(fmt, content, cfg)
ReadDataframe ==
    /\ pc = "read_dataframe"
    /\ fmt' = guess_format(feed_url, content)
    /\ log' = log \o <<"guess_format", "read_dataframe">>
    /\ \/ /\ Die(IF IsExcel(fmt') THEN "Excel read error" ELSE "CSV read error")
          /\ UNCHANGED <<parsed, df>>
       \/ \* read_excel(sheet_name=None) returns a dict of all sheets
          /\ IsExcel(fmt') /\ Get(cfg, "sheet_name", NULL) = NULL
          /\ parsed' = [kind |-> "dict", cols |-> <<>>, rows |-> <<>>]
          /\ df' = parsed'
          /\ pc' = "check_columns"
          /\ UNCHANGED <<exitCode, stderr>>
       \/ /\ ~(IsExcel(fmt') /\ Get(cfg, "sheet_name", NULL) = NULL)
          /\ \E t \in TablePool :
               /\ parsed' = t
               /\ df' = t
          /\ pc' = "check_columns"
          /\ UNCHANGED <<exitCode, stderr>>
    /\ UNCHANGED <<cfg, skuFile, skus, feed_url, content, out, fs, gets, pureVars>>

\* the check that the four configured columns are in the table
CheckColumns ==
    /\ pc = "check_columns"
    /\ log' = Append(log, "check_columns")
    /\ IF df.kind = "dict"
       THEN Die("Traceback: AttributeError")
       ELSE IF MissingColumns(df, cfg) # {}
       THEN Die("columns not found")
       ELSE /\ pc' = "transform"
            /\ UNCHANGED <<exitCode, stderr>>
    /\ UNCHANGED <<cfg, skuFile, skus, feed_url, content, fmt, parsed, df, out, fs,
                   gets, pureVars>>

\* normalisation, filter, coercion, renaming, sort and choice of columns
\* (df[column] raises KeyError on a column the table lacks)
Transform ==
    /\ pc = "transform"
    /\ log' = Append(log, "transform")
    /\ IF ~(Needed(cfg) \subseteq Range(df.cols))
       THEN /\ Die("Traceback: KeyError")
            /\ UNCHANGED <<df, out>>
       ELSE \E normalized \in {Normalized(df, cfg)} :
            \E filtered \in {Filtered(normalized, cfg, skus)} :
              /\ df' = normalized
              /\ IF ~CanCastInt64(QtyFloat(filtered, cfg))
                 THEN /\ Die("Traceback: TypeError")
                      /\ UNCHANGED out
                 ELSE \E sorted \in {sort_values(Renamed(filtered, cfg), "sku")} :
                        /\ out' = KeepColumns(sorted, KeepOf(cfg))
                        /\ stderr' =
                             IF KeepOf(cfg) # <<>> /\ MissingKeep(sorted, KeepOf(cfg)) # <<>>
                             THEN stderr \cup {"warning: keep_columns"}
                             ELSE stderr
                        /\ pc' = "mkdir"
                        /\ UNCHANGED exitCode
    /\ UNCHANGED <<cfg, skuFile, skus, feed_url, content, fmt, parsed, fs, gets,
                   pureVars>>

\* out_csv.parent.mkdir(...); out_json.parent.mkdir(...)
MakeDirs ==
    /\ pc = "mkdir"
    /\ log' = Append(log, "mkdir")
    /\ \/ /\ Die("Traceback: OSError")
          /\ UNCHANGED fs
       \/ /\ Die("Traceback: OSError")
          /\ fs' = [fs EXCEPT !.dirs = {"out_csv.parent"}]
       \/ /\ fs' = [fs EXCEPT !.dirs = {"out_csv.parent", "out_json.parent"}]
          /\ pc' = "to_csv"
          /\ UNCHANGED <<exitCode, stderr>>
    /\ UNCHANGED <<cfg, skuFile, skus, feed_url, content, fmt, parsed, df, out, gets,
                   pureVars>>

\* a file this run has written
File(frame) == [data |-> frame]

\* out.to_csv(out_csv, index=False, encoding="utf-8")
ToCsv ==
    /\ pc = "to_csv"
    /\ log' = Append(log, "to_csv")
    /\ \/ /\ Die("Traceback: OSError")
          /\ UNCHANGED fs
       \/ /\ fs' = [fs EXCEPT !.csv = <<File(out)>>]
          /\ pc' = "to_json"
          /\ UNCHANGED <<exitCode, stderr>>
    /\ UNCHANGED <<cfg, skuFile, skus, feed_url, content, fmt, parsed, df, out, gets,
                   pureVars>>

\* out.to_json(out_json, orient="records", force_ascii=False, indent=2), the
\* final print, and the return from main
ToJson ==
    /\ pc = "to_json"
    /\ log' = Append(log, "to_json")
    /\ IF ~ColumnsUnique(out)
       THEN /\ Die("Traceback: ValueError")
            /\ UNCHANGED fs
       ELSE \/ /\ Die("Traceback: OSError")
               /\ UNCHANGED fs
            \/ /\ fs' = [fs EXCEPT !.json = <<File(out)>>]
               /\ pc' = "exit"
               /\ exitCode' = <<0>>
               /\ UNCHANGED stderr
    /\ UNCHANGED <<cfg, skuFile, skus, feed_url, content, fmt, parsed, df, out, gets,
                   pureVars>>

Next ==
    \/ LoadConfig
    \/ LoadSkus
    \/ DownloadFeed
    \/ ReadDataframe
    \/ CheckColumns
    \/ Transform
    \/ MakeDirs
    \/ ToCsv
    \/ ToJson

Spec == Init /\ [][Next]_vars

---------------------------------------------------------------------------
(* to_number and guess_format on their own, over bounded sets of arguments *)

NumChars == {"0", "1", ".", ",", " ", "x", "-"}

NumExamples ==
    { <<"1", ".", "2", "3", "4", ",", "5", "6">>,
      <<"1", ",", "2", "3", "4", ".", "5", "6">>,
      <<" ", "1", ".", "2", "3", "4", ",", "5", "6", " ">>,
      <<" ", "1", ",", "2", "3", "4", ".", "5", "6", " ">> }

NumStrings == SeqsUpTo(NumChars, MaxLen) \cup NumExamples

\* "," is decimal-comma mode; every other setting takes the else branch
DecimalSettings == {",", ".", ";"}

InitNum ==
    /\ npc = "to_number"
    /\ \E x \in NumStrings : series = <<x>>
    /\ decimal \in DecimalSettings
    /\ numbers = <<>>
    /\ pc = "idle"
    /\ cfg = <<>>
    /\ skuFile = <<>>
    /\ skus = {}
    /\ feed_url = <<>>
    /\ content = <<>>
    /\ fmt = NULL
    /\ parsed = EmptyFrame
    /\ df = EmptyFrame
    /\ out = EmptyFrame
    /\ fs = [dirs |-> {}, csv |-> <<>>, json |-> <<>>]
    /\ exitCode = <<>>
    /\ stderr = {}
    /\ gets = 0
    /\ log = <<>>

mainVars == <<pc, cfg, skuFile, skus, parsed, df, out, fs, exitCode, stderr, gets, log>>

\* numbers = to_number(series, decimal)
ToNumber ==
    /\ npc = "to_number"
    /\ numbers' = to_number(series, decimal)
    /\ npc' = "done"
    /\ UNCHANGED <<mainVars, feed_url, content, fmt, series, decimal>>

NextNum == ToNumber

SpecNum == InitNum /\ [][NextNum]_vars

UrlStems == {<<>>, <<"f">>, <<"f", ".", "c", "s", "v", "/", "a">>}

UrlSuffixes ==
    { <<>>, <<".", "x", "l", "s", "x">>, <<".", "X", "L", "S", "X">>,
      <<".", "x", "l", "s", "m">>, <<".", "x", "l", "s">>, <<".", "X", "l", "S">>,
      <<".", "c", "s", "v">>, <<".", "C", "S", "V">>, <<".", "t", "x", "t">>,
      <<"x", "l", "s">>, <<"c", "s", "v">>, <<".", "x", "l", "s", "b">>,
      <<".", "c", "s", "v", "?", "a", "=", "1">>, <<".", "x", "l", "s", "x", " ">> }

FmtUrls == {stem \o suffix : stem \in UrlStems, suffix \in UrlSuffixes}

\* runs of bytes: a comma, a semicolon or another byte, repeated
RunPool == {[b |-> byte, n |-> k] : byte \in {",", ";", "x"}, k \in {1, SniffLen - 1, SniffLen}}

FmtContents == SeqsUpTo(RunPool, MaxRuns)

InitFmt ==
    /\ npc = "guess_format"
    /\ feed_url \in FmtUrls
    /\ content \in FmtContents
    /\ fmt = NULL
    /\ series = <<>>
    /\ decimal = "."
    /\ numbers = <<>>
    /\ pc = "idle"
    /\ cfg = <<>>
    /\ skuFile = <<>>
    /\ skus = {}
    /\ parsed = EmptyFrame
    /\ df = EmptyFrame
    /\ out = EmptyFrame
    /\ fs = [dirs |-> {}, csv |-> <<>>, json |-> <<>>]
    /\ exitCode = <<>>
    /\ stderr = {}
    /\ gets = 0
    /\ log = <<>>

\* fmt = guess_format(feed_url, content)
GuessFormat ==
    /\ npc = "guess_format"
    /\ fmt' = guess_format(feed_url, content)
    /\ npc' = "done"
    /\ UNCHANGED <<mainVars, feed_url, content, series, decimal, numbers>>

NextFmt == GuessFormat

SpecFmt == InitFmt /\ [][NextFmt]_vars

---------------------------------------------------------------------------
(* Vocabulary of the properties, defined without the operators above       *)

\* s without its leading and trailing blanks
Core(s) ==
    LET idx == {i \in 1..Len(s) : s[i] # " "}
    IN  IF idx = {} THEN <<>>
        ELSE SubSeq(s, CHOOSE i \in idx : \A j \in idx : i <= j,
                       CHOOSE i \in idx : \A j \in idx : j <= i)

\* a code as the filter sees it: trimmed and upper-cased
NormCode(s) == Map(UpperChar, Core(s))

\* the whitelist of a code-list file
Whitelist(lines) ==
    {NormCode(lines[i]) : i \in {j \in 1..Len(lines) :
                                    Core(lines[j]) # <<>> /\ Core(lines[j])[1] # "#"}}

LastStep == IF log = <<>> THEN NULL ELSE log[Len(log)]
Did(step) == \E i \in 1..Len(log) : log[i] = step
Exited == pc = "exit"
Succeeded == exitCode = <<0>>
Failed == Exited /\ exitCode # <<0>>

\* the transformation has produced the output frame
Transformed == Did("transform") /\ (pc = "mkdir" \/ Did("mkdir"))

\* the output frame has just been produced, or the run has succeeded and the
\* frame is what both files hold
OutputReady == pc = "mkdir" \/ Succeeded

\* the rows of the parsed table whose normalised code is in the whitelist
SrcCode(i) == parsed.rows[i][1]
SrcName(i) == parsed.rows[i][2]
SrcQty(i) == parsed.rows[i][3]
SrcPrice(i) == parsed.rows[i][4]
KeptIdx ==
    LET W == Whitelist(skuFile)
    IN  {i \in 1..Len(parsed.rows) : NormCode(SrcCode(i)) \in W}

\* the cell of output row r in column c (the first column of that name)
HasCol(frame, c) == \E k \in 1..Len(frame.cols) : frame.cols[k] = c
Cell(frame, r, c) ==
    frame.rows[r][CHOOSE k \in 1..Len(frame.cols) : frame.cols[k] = c]

\* one-to-one assignments of the rows of a frame to the source rows kept
Matchings(frame, kept) ==
    {f \in [1..Len(frame.rows) -> kept] :
        \A a, b \in 1..Len(frame.rows) : f[a] = f[b] => a = b}

---------------------------------------------------------------------------
(* C1 .. C10                                                               *)

\* C1: the set load_skus returns and main filters by is the whitelist of the file (its trimmed,
\* upper-cased, non-blank, non-'#' lines), and the output frame, which a
\* successful run writes to both files, holds exactly one row for every
\* occurrence of a source row whose trimmed, upper-cased code is in the
\* whitelist (same code and name), and no other row.
C1_OutputIsTheWhitelistedRows ==
    /\ pc = "download_feed" \/ OutputReady => skus = Whitelist(skuFile)
    /\ OutputReady =>
         \E kept \in {KeptIdx} :
           /\ Len(out.rows) = Cardinality(kept)
           /\ \E f \in Matchings(out, kept) :
                \A r \in 1..Len(out.rows) :
                  /\ HasCol(out, "sku") => Cell(out, r, "sku") = NormCode(SrcCode(f[r]))
                  /\ HasCol(out, "name") => Cell(out, r, "name") = Core(SrcName(f[r]))
    /\ Succeeded => fs.csv = <<File(out)>> /\ fs.json = <<File(out)>>

\* C1 witness: a successful run whose table has a row kept only because its
\* code is trimmed and upper-cased, and a row that is filtered out.
C1_Witness ==
    /\ Succeeded
    /\ Len(parsed.rows) = 2
    /\ Len(fs.csv[1].data.rows) = 1
    /\ HasCol(out, "sku")
    /\ \E i \in KeptIdx : SrcCode(i) = <<" ", "a">> /\ Cell(fs.csv[1].data, 1, "sku") = <<"A">>

\* C2: the output rows are in ascending order of code, and the rows of one
\* code keep the order they had in the source table.
C2_SortedAndStable ==
    OutputReady /\ HasCol(out, "sku") =>
      /\ \A a, b \in 1..Len(out.rows) :
           a < b => ~StrLess(Cell(out, b, "sku"), Cell(out, a, "sku"))
      /\ HasCol(out, "name") =>
           \A code \in {Cell(out, r, "sku") : r \in 1..Len(out.rows)} :
             LET outOf == SelectSeq(out.rows, LAMBDA row : row[ColIndex(out.cols, "sku")] = code)
                 srcOf == SelectSeq(parsed.rows, LAMBDA row : NormCode(row[1]) = code)
             IN  /\ Len(outOf) = Len(srcOf)
                 /\ \A k \in 1..Len(outOf) :
                      outOf[k][ColIndex(out.cols, "name")] = Core(srcOf[k][2])

\* C2 witness: two rows of one code (written " a" and "A" in the feed) with
\* different names reach the output.
C2_Witness ==
    /\ Transformed
    /\ out.cols = OutCols
    /\ Len(out.rows) = 2
    /\ Cell(out, 1, "sku") = Cell(out, 2, "sku")
    /\ Cell(out, 1, "name") # Cell(out, 2, "name")
    /\ SrcCode(1) # SrcCode(2)

\* C3: a run that ends in a failure has written neither the CSV file nor the
\* JSON file.
C3_NoOutputOnFailure ==
    Failed => fs.csv = <<>> /\ fs.json = <<>>

\* a required column is absent from the table that was read
RequiredColumnAbsent ==
    /\ Did("check_columns")
    /\ parsed.kind = "frame"
    /\ \E k \in {"sku_column", "name_column", "qty_column", "price_column"} :
         k \notin DOMAIN cfg \/ \A j \in 1..Len(parsed.cols) : parsed.cols[j] # cfg[k]

\* C4: when one of the four configured columns is absent from the parsed
\* table, the run ends at the column check with exit code 1 and its
\* diagnostic; the table has not been normalised, no output frame has been
\* built, and no directory or file has been written.
C4_MissingColumnIsFatalBeforeAnyWork ==
    RequiredColumnAbsent =>
      /\ Exited
      /\ exitCode = <<1>>
      /\ LastStep = "check_columns"
      /\ "columns not found" \in stderr
      /\ df = parsed
      /\ out = EmptyFrame
      /\ fs = [dirs |-> {}, csv |-> <<>>, json |-> <<>>]

\* C4 witness: a table with rows was read and the configured price column is
\* not one of its columns.
C4_Witness ==
    /\ RequiredColumnAbsent
    /\ Exited
    /\ "price_column" \in DOMAIN cfg
    /\ parsed.rows # <<>>

BothFilesWritten == fs.csv # <<>> /\ fs.json # <<>>

\* C5: the exit code is 0 exactly when the run has ended with both files
\* written, and it is 1 when the run ends on a missing or empty config file,
\* a missing code-list file, an empty code list, a blank FEED_URL, a
\* transport error, a parse error or a missing required column; a run has no
\* exit code before it ends, and none of these conditions lets it go on.
C5_ExitCodes ==
    /\ Exited <=> exitCode # <<>>
    /\ exitCode \in {<<>>, <<0>>, <<1>>}
    /\ Succeeded <=> (Exited /\ BothFilesWritten)
    /\ Exited /\ LastStep \in {"load_config", "load_skus", "download_feed", "get",
                               "read_dataframe", "check_columns"} => exitCode = <<1>>
    /\ pc = "download_feed" => Whitelist(skuFile) # {}
    /\ Did("download_feed") /\ feed_url = <<>> => Exited /\ LastStep = "download_feed"
    /\ RequiredColumnAbsent => Exited /\ LastStep = "check_columns"

\* C5 witness: a code-list file that holds only blank and comment lines ends
\* the run with exit code 1.
C5_Witness ==
    /\ Exited
    /\ exitCode = <<1>>
    /\ LastStep = "load_skus"
    /\ Len(skuFile) = 2
    /\ Whitelist(skuFile) = {}

\* a string no decimal convention reads as a number: once trimmed it is empty
\* or holds a character that is no digit, sign, point or comma
Unparseable(s) ==
    \/ Core(s) = <<>>
    \/ \E i \in 1..Len(Core(s)) :
         Core(s)[i] \notin {"0", "1", "2", "3", "4", "5", "6", "7", "8", "9", "-", "+", ".", ","}

\* C6: every kept row is emitted; an unparseable quantity is emitted as 0 and
\* an unparseable price as a missing value; no emitted quantity is missing.
C6_QtyZeroPriceMissing ==
    OutputReady =>
      \E kept \in {KeptIdx} :
        /\ Len(out.rows) = Cardinality(kept)
        /\ \E f \in Matchings(out, kept) :
             \A r \in 1..Len(out.rows) :
               /\ HasCol(out, "name") => Cell(out, r, "name") = Core(SrcName(f[r]))
               /\ HasCol(out, "qty") =>
                    /\ ~Cell(out, r, "qty").na
                    /\ Unparseable(SrcQty(f[r])) => Cell(out, r, "qty").v = 0
               /\ HasCol(out, "price") =>
                    (Unparseable(SrcPrice(f[r])) => Cell(out, r, "price").nan)

\* C6 witness: a kept row whose quantity and price are both "x" is emitted
\* with quantity 0 and a missing price.
C6_Witness ==
    /\ Transformed
    /\ out.cols = OutCols
    /\ \E i \in KeptIdx : SrcQty(i) = <<"x">> /\ SrcPrice(i) = <<"x">>
    /\ \E r \in 1..Len(out.rows) :
         /\ Cell(out, r, "qty") = [na |-> FALSE, v |-> 0]
         /\ Cell(out, r, "price").nan

\* the digit characters of s, in order
DigitsOf(s) == SelectSeq(s, LAMBDA ch : ch \in {"0", "1", "2", "3", "4", "5", "6", "7", "8", "9"})

\* positions of the character ch in s
Positions(s, ch) == {i \in 1..Len(s) : s[i] = ch}

\* number of digits of s behind its (only) character ch; 0 if s has none
DigitsBehind(s, ch) ==
    IF Positions(s, ch) = {} THEN 0
    ELSE Len(DigitsOf(SubSeq(s, (CHOOSE i \in Positions(s, ch) : TRUE) + 1, Len(s))))

\* s, once trimmed, is an optional "-" and then digits, grouping separators sep
\* and at most one decimal symbol point, with at least one digit
IsNumeral(s, sep, point) ==
    LET c == Core(s)
        body == IF c # <<>> /\ c[1] = "-" THEN SubSeq(c, 2, Len(c)) ELSE c
    IN  /\ \A i \in 1..Len(body) : body[i] \in {sep, point} \/ DigitsOf(<<body[i]>>) # <<>>
        /\ Cardinality(Positions(body, point)) <= 1
        /\ DigitsOf(body) # <<>>

\* the number x is sign * digits / 10^places
IsValue(x, sign, digits, places) ==
    /\ ~x.nan
    /\ x.e <= places
    /\ x.m * Pow10(places - x.e) = sign * DigitsInt(digits)

\* C7: to_number trims the string, drops the thousands separator ("." when
\* decimal is ",", and "," under every other setting) and reads the decimal
\* symbol ("," when decimal is ",", and "." otherwise) as the decimal point:
\* a trimmed numeral in that convention yields the number its digits spell,
\* with as many decimal places as digits follow the decimal symbol, and no
\* finite result is anything else; "1.234,56" yields 1234.56 when decimal is
\* "," and "1,234.56" yields 1234.56 otherwise.
C7_ToNumberConventions ==
    npc = "done" =>
      /\ Len(numbers) = Len(series)
      /\ \A i \in 1..Len(series) :
           LET s == series[i]
               x == numbers[i]
               sep == IF decimal = "," THEN "." ELSE ","
               point == IF decimal = "," THEN "," ELSE "."
               sign == IF Positions(s, "-") = {} THEN 1 ELSE -1
           IN  /\ IsNumeral(s, sep, point) =>
                    IsValue(x, sign, DigitsOf(s), DigitsBehind(s, point))
               /\ ~x.nan => IsValue(x, sign, DigitsOf(s), DigitsBehind(s, point))
               /\ Core(s) = <<"1", ".", "2", "3", "4", ",", "5", "6">> /\ decimal = ","
                    => x = [nan |-> FALSE, m |-> 123456, e |-> 2]
               /\ Core(s) = <<"1", ",", "2", "3", "4", ".", "5", "6">> /\ decimal # ","
                    => x = [nan |-> FALSE, m |-> 123456, e |-> 2]

\* C7 witness: " 1.234,56 " has been read as 1234.56 in decimal-comma mode.
C7_Witness ==
    /\ npc = "done"
    /\ decimal = ","
    /\ series = << <<" ", "1", ".", "2", "3", "4", ",", "5", "6", " ">> >>
    /\ numbers = << [nan |-> FALSE, m |-> 123456, e |-> 2] >>

\* "warning: a keep_columns entry is no output field" is on the error stream
Warned == "warning: keep_columns" \in stderr

\* the entries of keep that are output fields, in keep's order
FieldsOf(keep) ==
    SelectSeq(keep, LAMBDA c : c \in {"sku", "name", "qty", "price"})

\* the run went through the transformation and met no I/O error afterwards
NoIOError == "Traceback: OSError" \notin stderr

Distinct(q) == \A i, j \in 1..Len(q) : q[i] = q[j] => i = j

EndsWithCI(u, suf) ==
    /\ Len(u) >= Len(suf)
    /\ \A i \in 1..Len(suf) : LowerChar(u[Len(u) - Len(suf) + i]) = suf[i]

\* number of bytes in front of run i
RECURSIVE Offset(_, _)
Offset(bytes, i) == IF i = 1 THEN 0 ELSE Offset(bytes, i - 1) + bytes[i - 1].n

\* a comma or a semicolon is among the first 4096 bytes
DelimiterInWindow(bytes) ==
    \E i \in 1..Len(bytes) :
      bytes[i].b \in {",", ";"} /\ bytes[i].n >= 1 /\ Offset(bytes, i) + 1 <= 4096

\* C9: guess_format returns xlsx for a URL ending in .xlsx or .xlsm, xls for
\* one ending in .xls and csv for one ending in .csv (letter case ignored),
\* whatever the content; for any other URL it returns csv if a comma or a
\* semicolon is among the first 4096 bytes of the content and xlsx otherwise.
C9_GuessFormat ==
    npc = "done" =>
      /\ fmt \in {"xls", "xlsx", "csv"}
      /\ IF EndsWithCI(feed_url, <<".", "x", "l", "s", "x">>)
            \/ EndsWithCI(feed_url, <<".", "x", "l", "s", "m">>)
         THEN fmt = "xlsx"
         ELSE IF EndsWithCI(feed_url, <<".", "x", "l", "s">>) THEN fmt = "xls"
         ELSE IF EndsWithCI(feed_url, <<".", "c", "s", "v">>) THEN fmt = "csv"
         ELSE fmt = (IF DelimiterInWindow(content) THEN "csv" ELSE "xlsx")

\* C9 witness: the URL has no known suffix and the only comma of the content
\* is its byte 4097: the format is xlsx.
C9_Witness ==
    /\ npc = "done"
    /\ feed_url = <<"f">>
    /\ content = << [b |-> "x", n |-> 4096], [b |-> ",", n |-> 1] >>
    /\ fmt = "xlsx"

\* number of times step occurs in the log
Count(step) == Cardinality({i \in 1..Len(log) : log[i] = step})

\* C10: at most one GET is issued in a run and none after a failure; it is
\* issued only after the config and a non-empty code list were loaded and with
\* a non-blank URL, so a run that ends on the config, the code list or a blank
\* URL has issued none; and nothing is parsed, transformed or written unless
\* the GET has returned successfully before.
C10_OneGetAfterTheLoads ==
    /\ gets <= 1
    /\ Count("get") = gets
    /\ gets = 1 =>
         /\ DOMAIN cfg # {}
         /\ skus # {}
         /\ feed_url # <<>>
         /\ SubSeq(log, 1, 4) = <<"load_config", "load_skus", "download_feed", "get">>
    /\ Exited /\ LastStep \in {"load_config", "load_skus", "download_feed"} => gets = 0
    /\ \A i \in 1..Len(log) :
         log[i] \in {"guess_format", "read_dataframe", "check_columns", "transform",
                     "mkdir", "to_csv", "to_json"}
           => i > 5 /\ log[5] = "get_ok"
    /\ Count("get_ok") = 0 =>
         /\ parsed = EmptyFrame /\ df = EmptyFrame /\ out = EmptyFrame
         /\ fs = [dirs |-> {}, csv |-> <<>>, json |-> <<>>]

\* C10 witness: the one GET failed and the run ended there.
C10_Witness ==
    /\ Exited
    /\ gets = 1
    /\ LastStep = "get"
    /\ exitCode = <<1>>

====
